---------------------------- MODULE Spec2Model ----------------------------
(***************************************************************************)
(* relapseviz: translation of a relapse grammar (katydid ast) into a       *)
(* gographviz graph (graphviz.go).                                         *)
(*                                                                         *)
(* Strings are sequences of tokens.  The two characters that matter for    *)
(* the quoting of a label, the double quote and the backslash, are tokens  *)
(* of their own; every other token is a run of ordinary characters.        *)
(*                                                                         *)
(* An ast node is a record                                                 *)
(*   [type, kids, lists, sc]                                               *)
(* type  : the Go type name of the node (what getTypeName returns),        *)
(* kids  : the non-nil pointer fields, field name -> child node,           *)
(* lists : the non-nil slice fields, field name -> sequence of children,   *)
(* sc    : the populated scalar fields, field name -> value.               *)
(* A field that is nil (or "" for a string compared with "") is absent     *)
(* from the domain.                                                        *)
(***************************************************************************)
EXTENDS Integers, Sequences, FiniteSets, TLC

\* The double quote character.
Q == "\""
\* The backslash character.
BS == "\\"

\* ------------------------------------------------------------------ bounds

\* Longest PatternDecls / Elems / Params sequence of an input grammar.
MaxElems == 3
\* Number of Translate / TranslateGrammar calls of one run.
MaxCalls == 3

\* ------------------------------------------------------------- ast schema

\* The pointer fields of each ast struct that translate reads, with the Go
\* type each points to (katydid relapse/ast).
KidSchema ==
  [ Grammar       |-> {<<"TopPattern", "Pattern">>, <<"After", "Space">>},
    PatternDecl   |-> {<<"Hash", "Keyword">>, <<"Before", "Space">>,
                       <<"Eq", "Keyword">>, <<"Pattern", "Pattern">>},
    Pattern       |-> {<<"Empty", "Empty">>, <<"TreeNode", "TreeNode">>,
                       <<"LeafNode", "LeafNode">>, <<"Concat", "Concat">>,
                       <<"Or", "Or">>, <<"And", "And">>,
                       <<"ZeroOrMore", "ZeroOrMore">>,
                       <<"Reference", "Reference">>, <<"Not", "Not">>,
                       <<"ZAny", "ZAny">>, <<"Contains", "Contains">>,
                       <<"Optional", "Optional">>,
                       <<"Interleave", "Interleave">>},
    Empty         |-> {<<"Empty", "Keyword">>},
    TreeNode      |-> {<<"Name", "NameExpr">>, <<"Colon", "Keyword">>,
                       <<"Pattern", "Pattern">>},
    Contains      |-> {<<"Dot", "Keyword">>, <<"Pattern", "Pattern">>},
    LeafNode      |-> {<<"Expr", "Expr">>},
    Concat        |-> {<<"OpenBracket", "Keyword">>, <<"LeftPattern", "Pattern">>,
                       <<"Comma", "Keyword">>, <<"RightPattern", "Pattern">>,
                       <<"ExtraComma", "Keyword">>, <<"CloseBracket", "Keyword">>},
    Or            |-> {<<"OpenParen", "Keyword">>, <<"LeftPattern", "Pattern">>,
                       <<"Pipe", "Keyword">>, <<"RightPattern", "Pattern">>,
                       <<"CloseParen", "Keyword">>},
    And           |-> {<<"OpenParen", "Keyword">>, <<"LeftPattern", "Pattern">>,
                       <<"Ampersand", "Keyword">>, <<"RightPattern", "Pattern">>,
                       <<"CloseParen", "Keyword">>},
    ZeroOrMore    |-> {<<"OpenParen", "Keyword">>, <<"Pattern", "Pattern">>,
                       <<"CloseParen", "Keyword">>, <<"Star", "Keyword">>},
    Reference     |-> {<<"At", "Keyword">>},
    Not           |-> {<<"Exclamation", "Keyword">>, <<"OpenParen", "Keyword">>,
                       <<"Pattern", "Pattern">>, <<"CloseParen", "Keyword">>},
    ZAny          |-> {<<"Star", "Keyword">>},
    Optional      |-> {<<"OpenParen", "Keyword">>, <<"Pattern", "Pattern">>,
                       <<"CloseParen", "Keyword">>, <<"QuestionMark", "Keyword">>},
    Interleave    |-> {<<"OpenCurly", "Keyword">>, <<"LeftPattern", "Pattern">>,
                       <<"SemiColon", "Keyword">>, <<"RightPattern", "Pattern">>,
                       <<"ExtraSemiColon", "Keyword">>, <<"CloseCurly", "Keyword">>},
    Expr          |-> {<<"RightArrow", "Keyword">>, <<"Comma", "Keyword">>,
                       <<"Terminal", "Terminal">>, <<"List", "List">>,
                       <<"Function", "Function">>, <<"BuiltIn", "BuiltIn">>},
    List          |-> {<<"Before", "Space">>, <<"OpenCurly", "Keyword">>,
                       <<"CloseCurly", "Keyword">>},
    Function      |-> {<<"Before", "Space">>, <<"OpenParen", "Keyword">>,
                       <<"CloseParen", "Keyword">>},
    BuiltIn       |-> {<<"Symbol", "Keyword">>, <<"Expr", "Expr">>},
    Terminal      |-> {<<"Before", "Space">>, <<"Variable", "Variable">>},
    Variable      |-> {},
    Keyword       |-> {<<"Before", "Space">>},
    Space         |-> {},
    NameExpr      |-> {<<"Name", "Name">>, <<"AnyName", "AnyName">>,
                       <<"AnyNameExcept", "AnyNameExcept">>,
                       <<"NameChoice", "NameChoice">>},
    Name          |-> {<<"Before", "Space">>},
    AnyName       |-> {<<"Underscore", "Keyword">>},
    AnyNameExcept |-> {<<"Exclamation", "Keyword">>, <<"OpenParen", "Keyword">>,
                       <<"Except", "NameExpr">>, <<"CloseParen", "Keyword">>},
    NameChoice    |-> {<<"OpenParen", "Keyword">>, <<"Left", "NameExpr">>,
                       <<"Pipe", "Keyword">>, <<"Right", "NameExpr">>,
                       <<"CloseParen", "Keyword">>} ]

\* The slice-of-pointer fields that translate ranges over, with the Go type
\* of their elements.
ListSchema ==
  [ Grammar  |-> {<<"PatternDecls", "PatternDecl">>},
    List     |-> {<<"Elems", "Expr">>},
    Function |-> {<<"Params", "Expr">>} ]

\* The ast types translate has a case for.
KnownTypes == DOMAIN KidSchema

\* The lexical / positional types: whitespace and comments, and tokens.
TriviaTypes == {"Keyword", "Space"}


\* ------------------------------------------------- library: strconv, fmt

Digits == <<"0", "1", "2", "3", "4", "5", "6", "7", "8", "9">>

\* strconv.FormatUint(n, 10)
RECURSIVE FormatUint(_)
FormatUint(n) ==
  IF n < 10 THEN <<Digits[n + 1]>>
  ELSE FormatUint(n \div 10) \o <<Digits[(n % 10) + 1]>>

\* strconv.FormatInt(n, 10) and strconv.Itoa(n)
FormatInt(n) == IF n < 0 THEN <<"-">> \o FormatUint(0 - n) ELSE FormatUint(n)

\* strconv.FormatBool(b)
FormatBool(b) == IF b THEN <<"true">> ELSE <<"false">>

\* strconv.FormatFloat(x, 'E', -1, 64) for the integral values 0..99:
\* shortest mantissa, exponent of at least two digits.
FormatFloat(x) ==
  IF x < 10 THEN <<Digits[x + 1], "E+00">>
  ELSE IF x % 10 = 0 THEN <<Digits[(x \div 10) + 1], "E+01">>
  ELSE <<Digits[(x \div 10) + 1], ".", Digits[(x % 10) + 1], "E+01">>

\* fmt.Sprintf(`"%v[%d]"`, name, i)
Sprintf(name, i) == <<Q, name, "[">> \o FormatInt(i) \o <<"]", Q>>

\* strings.Replace(s, "\"", "\\\"", -1)
RECURSIVE Replace(_)
Replace(s) ==
  IF s = <<>> THEN <<>>
  ELSE (IF Head(s) = Q THEN <<BS, Q>> ELSE <<Head(s)>>) \o Replace(Tail(s))

\* strings.Join(ss, "")
RECURSIVE Join(_)
Join(ss) == IF ss = <<>> THEN <<>> ELSE Head(ss) \o Join(Tail(ss))

\* types.Type_name (katydid relapse/types): a Go map, "" for a missing key.
Type_name ==
  (0 :> "UNKNOWN") @@ (101 :> "SINGLE_DOUBLE") @@ (103 :> "SINGLE_INT")
  @@ (109 :> "SINGLE_STRING") @@ (209 :> "LIST_STRING")

TypeName(t) == IF t \in DOMAIN Type_name THEN <<Type_name[t]>> ELSE <<>>

\* ------------------------------------------------------ library: math/rand

\* rand.New(rand.NewSource(seed)): the generator state is the seed and the
\* number of values drawn so far.
NewSource(seed) == [seed |-> seed, n |-> 0]

\* (*rand.Rand).Uint64: the next value of the seeded stream, and the
\* advanced generator.  The stream is a function of the seed and of the
\* position alone; its values are pairwise distinct over the draws of a walk.
Uint64(r) ==
  [val |-> (r.seed + 104729 + (r.n * 7919)) % 1000003,
   r   |-> [seed |-> r.seed, n |-> r.n + 1]]

\* ------------------------------------------------- library: ast stringers

Has(v, f) == f \in DOMAIN v.kids

\* (*ast.Space).String, (*ast.Keyword).String and the String methods of the
\* name expressions (katydid relapse/ast): the source text of the node.  A
\* nil receiver gives "".
RECURSIVE String(_)
String(v) ==
  CASE v.type = "Space" ->
         IF "Space" \in DOMAIN v.sc THEN Join(v.sc.Space) ELSE <<>>
    [] v.type = "Keyword" ->
         (IF Has(v, "Before") THEN String(v.kids.Before) ELSE <<>>)
         \o (IF "Value" \in DOMAIN v.sc THEN v.sc.Value ELSE <<>>)
    [] v.type = "NameExpr" ->
         (IF Has(v, "Name") THEN String(v.kids.Name) ELSE <<>>)
         \o (IF Has(v, "AnyName") THEN String(v.kids.AnyName) ELSE <<>>)
         \o (IF Has(v, "AnyNameExcept") THEN String(v.kids.AnyNameExcept) ELSE <<>>)
         \o (IF Has(v, "NameChoice") THEN String(v.kids.NameChoice) ELSE <<>>)
    [] v.type = "Name" ->
         (IF Has(v, "Before") THEN String(v.kids.Before) ELSE <<>>) \o <<"name">>
    [] v.type = "AnyName" ->
         IF Has(v, "Underscore") THEN String(v.kids.Underscore) ELSE <<>>
    [] v.type = "AnyNameExcept" ->
         (IF Has(v, "Exclamation") THEN String(v.kids.Exclamation) ELSE <<>>)
         \o (IF Has(v, "OpenParen") THEN String(v.kids.OpenParen) ELSE <<>>)
         \o (IF Has(v, "Except") THEN String(v.kids.Except) ELSE <<>>)
         \o (IF Has(v, "CloseParen") THEN String(v.kids.CloseParen) ELSE <<>>)
    [] v.type = "NameChoice" ->
         (IF Has(v, "OpenParen") THEN String(v.kids.OpenParen) ELSE <<>>)
         \o (IF Has(v, "Left") THEN String(v.kids.Left) ELSE <<>>)
         \o (IF Has(v, "Pipe") THEN String(v.kids.Pipe) ELSE <<>>)
         \o (IF Has(v, "Right") THEN String(v.kids.Right) ELSE <<>>)
         \o (IF Has(v, "CloseParen") THEN String(v.kids.CloseParen) ELSE <<>>)
    [] OTHER -> <<>>

\* v.F.String() where v.F may be nil.
StringOf(v, f) == IF Has(v, f) THEN String(v.kids[f]) ELSE <<>>

\* ------------------------------------------------------------------ label

\* newLabel: an opening quote and the name.
newLabel(name) == <<Q, name>>

\* (*label).write: the fragments appended verbatim.
write(l, ss) == l \o Join(ss)

\* (*label).finish: the closing quote.
finish(l) == l \o <<Q>>

\* if v.F != nil { label.write(`\nName: `, v.F.String()) }
lineString(l, v, f, name) ==
  IF Has(v, f) THEN write(l, << <<BS, "n", name, ": ">>, String(v.kids[f]) >>) ELSE l

\* if v.F != nil { label.write(`\nF: \"`, v.F.String(), `\"`) }
lineQuoted(l, v, f) ==
  IF Has(v, f)
  THEN write(l, << <<BS, "n", f, ": ", BS, Q>>, String(v.kids[f]), <<BS, Q>> >>)
  ELSE l

\* if v.F != nil { label.write(`\nF: `, `F`) }
lineMarker(l, v, f) ==
  IF Has(v, f) THEN write(l, << <<BS, "n", f, ": ">>, <<f>> >>) ELSE l

\* if v.F != nil { label.write(`\nF: `, `F`) } for a slice field F
lineListMarker(l, v, f) ==
  IF f \in DOMAIN v.lists THEN write(l, << <<BS, "n", f, ": ">>, <<f>> >>) ELSE l

\* if v.Name != "" { label.write(`\nName: `, v.Name) }
lineName(l, v) ==
  IF "Name" \in DOMAIN v.sc THEN write(l, << <<BS, "n", "Name", ": ">>, v.sc.Name >>) ELSE l

\* ------------------------------------------------------- descent requests

\* if v.F != nil { t.down(nodeId, v.F, `F`) }
dn(v, f) ==
  IF Has(v, f)
  THEN << [kind |-> "down", field |-> f, idx |-> 0, to |-> v.kids[f]] >>
  ELSE <<>>

\* rangeOver with the index counted from one.
rangeOverFromOne(v, f) ==
  IF f \in DOMAIN v.lists
  THEN [i \in 1..Len(v.lists[f]) |->
          [kind |-> "index", field |-> f, idx |-> i, to |-> v.lists[f][i]]]
  ELSE <<>>

\* for i, e := range v.F { ... t.addEdge(...); t.translate(e, ...) }
rangeOver(v, f) ==
  IF f \in DOMAIN v.lists
  THEN [i \in 1..Len(v.lists[f]) |->
          [kind |-> "index", field |-> f, idx |-> i - 1, to |-> v.lists[f][i]]]
  ELSE <<>>

\* if t.full { ... }
ifFull(full, steps) == IF full THEN steps ELSE <<>>

\* ------------------------------------------------ translate: the cases
\* Each case of the type switch of translate, for a node v, the walker's
\* mode and the label l = newLabel(nodeName): the finished label given to
\* addNode, and the descents the case then makes, in order.

caseGrammar(v, full, l) ==
  [ label |-> finish(lineQuoted(l, v, "After")),
    steps |-> dn(v, "TopPattern")
              \o rangeOver(v, "PatternDecls")
              \o ifFull(full, dn(v, "After")) ]

casePatternDecl(v, full, l) ==
  [ label |-> finish(lineMarker(lineString(lineName(lineQuoted(lineString(
                l, v, "Hash", "Hash"), v, "Before"), v), v, "Eq", "Eq"), v, "Pattern")),
    steps |-> ifFull(full, dn(v, "Hash") \o dn(v, "Eq") \o dn(v, "Before"))
              \o dn(v, "Pattern") ]

casePattern(v, full, l) ==
  [ label |-> finish(l),
    steps |-> dn(v, "Empty") \o dn(v, "TreeNode") \o dn(v, "LeafNode")
              \o dn(v, "Concat") \o dn(v, "Or") \o dn(v, "And")
              \o dn(v, "ZeroOrMore") \o dn(v, "Reference") \o dn(v, "Not")
              \o dn(v, "ZAny") \o dn(v, "Contains") \o dn(v, "Optional")
              \o dn(v, "Interleave") ]

caseEmpty(v, full, l) ==
  [ label |-> finish(lineQuoted(l, v, "Empty")),
    steps |-> ifFull(full, dn(v, "Empty")) ]

\* caseTreeNode with the descent into Colon made in either mode.
caseTreeNodeColonAlways(v, full, l) ==
  [ label |-> finish(lineMarker(lineString(lineString(
                l, v, "Name", "Name"), v, "Colon", "Colon"), v, "Pattern")),
    steps |-> dn(v, "Name")
              \o dn(v, "Colon")
              \o dn(v, "Pattern") ]

caseTreeNode(v, full, l) ==
  [ label |-> finish(lineMarker(lineString(lineString(
                l, v, "Name", "Name"), v, "Colon", "Colon"), v, "Pattern")),
    steps |-> dn(v, "Name")
              \o ifFull(full, dn(v, "Colon"))
              \o dn(v, "Pattern") ]

caseContains(v, full, l) ==
  [ label |-> finish(lineMarker(lineString(l, v, "Dot", "Dot"), v, "Pattern")),
    steps |-> ifFull(full, dn(v, "Dot")) \o dn(v, "Pattern") ]

caseLeafNode(v, full, l) ==
  [ label |-> finish(lineMarker(l, v, "Expr")),
    steps |-> dn(v, "Expr") ]

\* The ExtraComma line is written under the name Comma, and the
\* CloseBracket line is written when OpenBracket is non-nil.
caseConcat(v, full, l) ==
  [ label |-> finish(
      LET l5 == lineString(lineMarker(lineString(lineMarker(lineString(
                  l, v, "OpenBracket", "OpenBracket"), v, "LeftPattern"),
                  v, "Comma", "Comma"), v, "RightPattern"),
                  v, "ExtraComma", "Comma")
      IN  IF Has(v, "OpenBracket")
          THEN write(l5, << <<BS, "n", "CloseBracket", ": ">>, StringOf(v, "CloseBracket") >>)
          ELSE l5),
    steps |-> ifFull(full, dn(v, "OpenBracket"))
              \o dn(v, "LeftPattern")
              \o ifFull(full, dn(v, "Comma"))
              \o dn(v, "RightPattern")
              \o ifFull(full, dn(v, "ExtraComma") \o dn(v, "CloseBracket")) ]

caseOr(v, full, l) ==
  [ label |-> finish(lineString(lineMarker(lineString(lineMarker(lineString(
                l, v, "OpenParen", "OpenParen"), v, "LeftPattern"),
                v, "Pipe", "Pipe"), v, "RightPattern"),
                v, "CloseParen", "CloseParen")),
    steps |-> ifFull(full, dn(v, "OpenParen"))
              \o dn(v, "LeftPattern")
              \o ifFull(full, dn(v, "Pipe"))
              \o dn(v, "RightPattern")
              \o ifFull(full, dn(v, "CloseParen")) ]

\* caseAnd with the descent into LeftPattern made only outside full mode.
caseAndLeftOutsideFull(v, full, l) ==
  [ label |-> finish(lineString(lineMarker(lineString(lineMarker(lineString(
                l, v, "OpenParen", "OpenParen"), v, "LeftPattern"),
                v, "Ampersand", "Ampersand"), v, "RightPattern"),
                v, "CloseParen", "CloseParen")),
    steps |-> ifFull(full, dn(v, "OpenParen"))
              \o (IF full THEN <<>> ELSE dn(v, "LeftPattern"))
              \o ifFull(full, dn(v, "Ampersand"))
              \o dn(v, "RightPattern")
              \o ifFull(full, dn(v, "CloseParen")) ]

caseAnd(v, full, l) ==
  [ label |-> finish(lineString(lineMarker(lineString(lineMarker(lineString(
                l, v, "OpenParen", "OpenParen"), v, "LeftPattern"),
                v, "Ampersand", "Ampersand"), v, "RightPattern"),
                v, "CloseParen", "CloseParen")),
    steps |-> ifFull(full, dn(v, "OpenParen"))
              \o dn(v, "LeftPattern")
              \o ifFull(full, dn(v, "Ampersand"))
              \o dn(v, "RightPattern")
              \o ifFull(full, dn(v, "CloseParen")) ]

caseZeroOrMore(v, full, l) ==
  [ label |-> finish(lineString(lineString(lineMarker(lineString(
                l, v, "OpenParen", "OpenParen"), v, "Pattern"),
                v, "CloseParen", "CloseParen"), v, "Star", "Star")),
    steps |-> ifFull(full, dn(v, "OpenParen"))
              \o dn(v, "Pattern")
              \o ifFull(full, dn(v, "CloseParen") \o dn(v, "Star")) ]

caseReference(v, full, l) ==
  [ label |-> finish(lineName(lineString(l, v, "At", "At"), v)),
    steps |-> ifFull(full, dn(v, "At")) ]

caseNot(v, full, l) ==
  [ label |-> finish(lineString(lineMarker(lineString(lineString(
                l, v, "Exclamation", "Exclamation"), v, "OpenParen", "OpenParen"),
                v, "Pattern"), v, "CloseParen", "CloseParen")),
    steps |-> ifFull(full, dn(v, "Exclamation") \o dn(v, "OpenParen"))
              \o dn(v, "Pattern")
              \o ifFull(full, dn(v, "CloseParen")) ]

caseZAny(v, full, l) ==
  [ label |-> finish(lineString(l, v, "Star", "Star")),
    steps |-> ifFull(full, dn(v, "Star")) ]

\* Pattern is descended into before the first full block and again after it.
caseOptional(v, full, l) ==
  [ label |-> finish(lineString(lineString(lineMarker(lineString(
                l, v, "OpenParen", "OpenParen"), v, "Pattern"),
                v, "CloseParen", "CloseParen"), v, "QuestionMark", "QuestionMark")),
    steps |-> dn(v, "Pattern")
              \o ifFull(full, dn(v, "OpenParen"))
              \o dn(v, "Pattern")
              \o ifFull(full, dn(v, "CloseParen") \o dn(v, "QuestionMark")) ]

caseInterleave(v, full, l) ==
  [ label |-> finish(lineString(lineString(lineMarker(lineString(lineMarker(
                lineString(l, v, "OpenCurly", "OpenCurly"), v, "LeftPattern"),
                v, "SemiColon", "SemiColon"), v, "RightPattern"),
                v, "ExtraSemiColon", "ExtraSemiColon"), v, "CloseCurly", "CloseCurly")),
    steps |-> ifFull(full, dn(v, "OpenCurly"))
              \o dn(v, "LeftPattern")
              \o ifFull(full, dn(v, "SemiColon"))
              \o dn(v, "RightPattern")
              \o ifFull(full, dn(v, "ExtraSemiColon") \o dn(v, "CloseCurly")) ]

caseExpr(v, full, l) ==
  [ label |-> finish(lineMarker(lineMarker(lineMarker(lineMarker(lineString(
                lineString(l, v, "RightArrow", "RightArrow"), v, "Comma", "Comma"),
                v, "Terminal"), v, "List"), v, "Function"), v, "BuiltIn")),
    steps |-> ifFull(full, dn(v, "RightArrow") \o dn(v, "Comma"))
              \o dn(v, "Terminal") \o dn(v, "List")
              \o dn(v, "Function") \o dn(v, "BuiltIn") ]

\* The Type line is written unconditionally.
caseList(v, full, l) ==
  [ label |-> finish(lineString(lineListMarker(lineString(
                write(lineQuoted(l, v, "Before"),
                      << <<BS, "n", "Type", ": ">>, TypeName(v.sc.Type) >>),
                v, "OpenCurly", "OpenCurly"), v, "Elems"),
                v, "CloseCurly", "CloseCurly")),
    steps |-> ifFull(full, dn(v, "Before") \o dn(v, "OpenCurly"))
              \o rangeOver(v, "Elems")
              \o ifFull(full, dn(v, "CloseCurly")) ]

caseFunction(v, full, l) ==
  [ label |-> finish(lineString(lineListMarker(lineString(lineName(
                lineQuoted(l, v, "Before"), v), v, "OpenParen", "OpenParen"),
                v, "Params"), v, "CloseParen", "CloseParen")),
    steps |-> ifFull(full, dn(v, "Before") \o dn(v, "OpenParen"))
              \o rangeOver(v, "Params")
              \o ifFull(full, dn(v, "CloseParen")) ]

caseBuiltIn(v, full, l) ==
  [ label |-> finish(lineMarker(lineString(l, v, "Symbol", "Symbol"), v, "Expr")),
    steps |-> ifFull(full, dn(v, "Symbol")) \o dn(v, "Expr") ]

\* The value lines of a Terminal and of a Name, after the lines before them.
\* Only Literal goes through strings.Replace.
valueLines(l, v) ==
  LET l1 == IF "DoubleValue" \in DOMAIN v.sc
            THEN write(l, << <<BS, "n", "DoubleValue", ": ">>, FormatFloat(v.sc.DoubleValue) >>)
            ELSE l
      l2 == IF "IntValue" \in DOMAIN v.sc
            THEN write(l1, << <<BS, "n", "IntValue", ": ">>, FormatInt(v.sc.IntValue) >>)
            ELSE l1
      l3 == IF "UintValue" \in DOMAIN v.sc
            THEN write(l2, << <<BS, "n", "UintValue", ": ">>, FormatUint(v.sc.UintValue) >>)
            ELSE l2
      l4 == IF "BoolValue" \in DOMAIN v.sc
            THEN write(l3, << <<BS, "n", "BoolValue", ": ">>, FormatBool(v.sc.BoolValue) >>)
            ELSE l3
      l5 == IF "StringValue" \in DOMAIN v.sc
            THEN write(l4, << <<BS, "n", "StringValue", ": ">>, v.sc.StringValue >>)
            ELSE l4
  IN  IF "BytesValue" \in DOMAIN v.sc
      THEN write(l5, << <<BS, "n", "BytesValue", ": ">>, v.sc.BytesValue >>)
      ELSE l5

caseTerminal(v, full, l) ==
  [ label |-> finish(lineMarker(valueLines(
                LET l1 == lineQuoted(l, v, "Before")
                IN  IF "Literal" \in DOMAIN v.sc
                    THEN write(l1, << <<BS, "n", "Literal", ": ">>, Replace(v.sc.Literal) >>)
                    ELSE l1,
                v), v, "Variable")),
    steps |-> ifFull(full, dn(v, "Before")) \o dn(v, "Variable") ]

caseVariable(v, full, l) ==
  [ label |-> finish(write(l, << <<":", BS, "n", "Type", ":">>, TypeName(v.sc.Type) >>)),
    steps |-> <<>> ]

caseKeyword(v, full, l) ==
  [ label |-> finish(
      LET l1 == lineQuoted(l, v, "Before")
      IN  IF "Value" \in DOMAIN v.sc
          THEN write(l1, << <<BS, "n", "Value", ": ", BS, Q>>, v.sc.Value, <<BS, Q>> >>)
          ELSE l1),
    steps |-> ifFull(full, dn(v, "Before")) ]

\* for i, s := range v.Space { label.write(`\nSpace[`, strconv.Itoa(i), `]: \"`, s, `\"`) }
RECURSIVE spaceLines(_, _, _)
spaceLines(l, ss, i) ==
  IF i > Len(ss) THEN l
  ELSE spaceLines(write(l, << <<BS, "n", "Space", "[">>, FormatInt(i - 1),
                              <<"]: ", BS, Q>>, ss[i], <<BS, Q>> >>), ss, i + 1)

caseSpace(v, full, l) ==
  [ label |-> finish(IF "Space" \in DOMAIN v.sc THEN spaceLines(l, v.sc.Space, 1) ELSE l),
    steps |-> <<>> ]

caseNameExpr(v, full, l) ==
  [ label |-> finish(l),
    steps |-> dn(v, "Name") \o dn(v, "AnyName")
              \o dn(v, "AnyNameExcept") \o dn(v, "NameChoice") ]

\* No descent at all: Before is written to the label and not walked.
caseName(v, full, l) ==
  [ label |-> finish(valueLines(lineQuoted(l, v, "Before"), v)),
    steps |-> <<>> ]

caseAnyName(v, full, l) ==
  [ label |-> finish(lineString(l, v, "Underscore", "Underscore")),
    steps |-> ifFull(full, dn(v, "Underscore")) ]

caseAnyNameExcept(v, full, l) ==
  [ label |-> finish(lineString(lineMarker(lineString(lineString(
                l, v, "Exclamation", "Exclamation"), v, "OpenParen", "OpenParen"),
                v, "Except"), v, "CloseParen", "CloseParen")),
    steps |-> ifFull(full, dn(v, "Exclamation") \o dn(v, "OpenParen"))
              \o dn(v, "Except")
              \o ifFull(full, dn(v, "CloseParen")) ]

caseNameChoice(v, full, l) ==
  [ label |-> finish(lineString(lineMarker(lineString(lineMarker(lineString(
                l, v, "OpenParen", "OpenParen"), v, "Left"),
                v, "Pipe", "Pipe"), v, "Right"), v, "CloseParen", "CloseParen")),
    steps |-> ifFull(full, dn(v, "OpenParen"))
              \o dn(v, "Left")
              \o ifFull(full, dn(v, "Pipe"))
              \o dn(v, "Right")
              \o ifFull(full, dn(v, "CloseParen")) ]

\* The type switch of translate, for the types it has a case for.
typeSwitch(v, full, l) ==
  CASE v.type = "Grammar"       -> caseGrammar(v, full, l)
    [] v.type = "PatternDecl"   -> casePatternDecl(v, full, l)
    [] v.type = "Pattern"       -> casePattern(v, full, l)
    [] v.type = "Empty"         -> caseEmpty(v, full, l)
    [] v.type = "TreeNode"      -> caseTreeNode(v, full, l)
    [] v.type = "Contains"      -> caseContains(v, full, l)
    [] v.type = "LeafNode"      -> caseLeafNode(v, full, l)
    [] v.type = "Concat"        -> caseConcat(v, full, l)
    [] v.type = "Or"            -> caseOr(v, full, l)
    [] v.type = "And"           -> caseAnd(v, full, l)
    [] v.type = "ZeroOrMore"    -> caseZeroOrMore(v, full, l)
    [] v.type = "Reference"     -> caseReference(v, full, l)
    [] v.type = "Not"           -> caseNot(v, full, l)
    [] v.type = "ZAny"          -> caseZAny(v, full, l)
    [] v.type = "Optional"      -> caseOptional(v, full, l)
    [] v.type = "Interleave"    -> caseInterleave(v, full, l)
    [] v.type = "Expr"          -> caseExpr(v, full, l)
    [] v.type = "List"          -> caseList(v, full, l)
    [] v.type = "Function"      -> caseFunction(v, full, l)
    [] v.type = "BuiltIn"       -> caseBuiltIn(v, full, l)
    [] v.type = "Terminal"      -> caseTerminal(v, full, l)
    [] v.type = "Variable"      -> caseVariable(v, full, l)
    [] v.type = "Keyword"       -> caseKeyword(v, full, l)
    [] v.type = "Space"         -> caseSpace(v, full, l)
    [] v.type = "NameExpr"      -> caseNameExpr(v, full, l)
    [] v.type = "Name"          -> caseName(v, full, l)
    [] v.type = "AnyName"       -> caseAnyName(v, full, l)
    [] v.type = "AnyNameExcept" -> caseAnyNameExcept(v, full, l)
    [] v.type = "NameChoice"    -> caseNameChoice(v, full, l)

\* ------------------------------------------------------------ the inputs

NoFields == [f \in {} |-> <<>>]

\* The scalar fields a node of each type always carries (a non-pointer enum).
baseSc(type) ==
  IF type \in {"List", "Variable"} THEN [f \in {"Type"} |-> 109]
  ELSE IF type = "Keyword" THEN [f \in {"Value"} |-> <<"kw">>]
  ELSE NoFields

Node(type, kids, lists, sc) ==
  [type |-> type, kids |-> kids, lists |-> lists, sc |-> sc]

\* A node of the type with no pointer or slice field populated.
Leaf(type) == Node(type, NoFields, NoFields, baseSc(type))

\* A value of a type translate has no case for.
Unregistered == Node("Future", NoFields, NoFields, NoFields)

\* The node of the type with exactly the pointer fields fs populated, each
\* by a leaf of the field's type.
WithKids(type, fs) ==
  Node(type,
       [f \in fs |-> Leaf((CHOOSE p \in KidSchema[type] : p[1] = f)[2])],
       NoFields, baseSc(type))

KidNames(type) == {p[1] : p \in KidSchema[type]}

\* The populated-field sets tried for a type: none, each field alone, any
\* two of up to four fields, and all of them.
Shapes(type) ==
  {fs \in SUBSET KidNames(type) :
      \/ Cardinality(fs) <= 1
      \/ fs = KidNames(type)
      \/ Cardinality(KidNames(type)) <= 4}

\* A slice field of n leaves.
Repeat(type, n) == [i \in 1..n |-> Leaf(type)]

\* Nodes with a slice field: nil, empty and of each length, with no or all
\* pointer fields populated; and one whose second element is unregistered.
WithLists(type) ==
  IF type \notin DOMAIN ListSchema THEN {}
  ELSE LET p == CHOOSE q \in ListSchema[type] : TRUE IN
       { [WithKids(type, fs) EXCEPT !.lists = [f \in {p[1]} |-> Repeat(p[2], n)]] :
           fs \in {{}, KidNames(type)}, n \in 0..MaxElems }
       \cup { [Leaf(type) EXCEPT !.lists =
                 [f \in {p[1]} |-> <<Leaf(p[2]), Unregistered>>]] }

\* Texts of scalar and whitespace fields: plain, holding a quote, ending in
\* a backslash.
Plain == <<"a">>
Quoted == <<"a", Q, "b">>
Slashed == <<"a", BS>>

\* The scalar fields tried for the types that have them.
Scalars(type) ==
  CASE type = "Terminal" ->
         { [f \in {"Literal"} |-> <<Q, "a", Q>>],
           [f \in {"StringValue"} |-> Plain],
           [f \in {"StringValue"} |-> Quoted],
           [f \in {"BytesValue"} |-> Slashed],
           [f \in {"DoubleValue"} |-> 25],
           [f \in {"IntValue"} |-> 0 - 12],
           [f \in {"UintValue"} |-> 7],
           [f \in {"BoolValue"} |-> TRUE],
           [f \in {"Literal", "StringValue"} |->
              IF f = "Literal" THEN <<Q, "a", BS, Q, "b", Q>> ELSE Quoted] }
    [] type = "Name" ->
         { [f \in {"StringValue"} |-> Plain],
           [f \in {"StringValue"} |-> Quoted],
           [f \in {"BytesValue"} |-> Plain],
           [f \in {"DoubleValue"} |-> 3],
           [f \in {"IntValue"} |-> 40],
           [f \in {"UintValue"} |-> 105],
           [f \in {"BoolValue"} |-> FALSE] }
    [] type \in {"PatternDecl", "Reference", "Function"} ->
         { [f \in {"Name"} |-> <<"main">>] }
    [] type = "Keyword" ->
         { NoFields, [f \in {"Value"} |-> <<"(">>] }
    [] type = "Space" ->
         { [f \in {"Space"} |-> << <<" ">> >>],
           [f \in {"Space"} |-> << <<" ">>, <<"/*", Q, "*/">> >>] }
    [] type \in {"List", "Variable"} ->
         { [f \in {"Type"} |-> 0], [f \in {"Type"} |-> 7] }
    [] OTHER -> {}

\* The nodes of a type that are tried at the end of its spine.
Focus(type) ==
  { WithKids(type, fs) : fs \in Shapes(type) }
  \cup WithLists(type)
  \cup { [Leaf(type) EXCEPT !.sc = sc] : sc \in Scalars(type) }

\* Where a node of each type hangs in a grammar: parent type and field.
Spine ==
  [ PatternDecl   |-> <<"Grammar", "PatternDecls">>,
    Pattern       |-> <<"Grammar", "TopPattern">>,
    Space         |-> <<"Grammar", "After">>,
    Empty         |-> <<"Pattern", "Empty">>,
    TreeNode      |-> <<"Pattern", "TreeNode">>,
    LeafNode      |-> <<"Pattern", "LeafNode">>,
    Concat        |-> <<"Pattern", "Concat">>,
    Or            |-> <<"Pattern", "Or">>,
    And           |-> <<"Pattern", "And">>,
    ZeroOrMore    |-> <<"Pattern", "ZeroOrMore">>,
    Reference     |-> <<"Pattern", "Reference">>,
    Not           |-> <<"Pattern", "Not">>,
    ZAny          |-> <<"Pattern", "ZAny">>,
    Contains      |-> <<"Pattern", "Contains">>,
    Optional      |-> <<"Pattern", "Optional">>,
    Interleave    |-> <<"Pattern", "Interleave">>,
    Keyword       |-> <<"ZAny", "Star">>,
    Expr          |-> <<"LeafNode", "Expr">>,
    Terminal      |-> <<"Expr", "Terminal">>,
    List          |-> <<"Expr", "List">>,
    Function      |-> <<"Expr", "Function">>,
    BuiltIn       |-> <<"Expr", "BuiltIn">>,
    Variable      |-> <<"Terminal", "Variable">>,
    NameExpr      |-> <<"TreeNode", "Name">>,
    Name          |-> <<"NameExpr", "Name">>,
    AnyName       |-> <<"NameExpr", "AnyName">>,
    AnyNameExcept |-> <<"NameExpr", "AnyNameExcept">>,
    NameChoice    |-> <<"NameExpr", "NameChoice">>,
    Future        |-> <<"Pattern", "ZAny">> ]

\* The grammar that holds node v at the end of the spine of its type.
RECURSIVE Embed(_)
Embed(v) ==
  IF v.type = "Grammar" THEN v
  ELSE LET up == Spine[v.type] IN
       IF up[2] = "PatternDecls"
       THEN Embed([Leaf(up[1]) EXCEPT !.lists = [f \in {up[2]} |-> <<v>>]])
       ELSE Embed([Leaf(up[1]) EXCEPT !.kids = [f \in {up[2]} |-> v]])

\* The grammars translated.
Grammars ==
  { Embed(v) : v \in UNION { Focus(type) : type \in KnownTypes } }
  \cup { Embed(Unregistered) }

\* -------------------------------------------------------------- the state

VARIABLES
  g,        \* the grammar the caller holds (what its source text parses to)
  call,     \* the entry point called last and its source text
  pc,       \* "idle", "walking", "walked", "returned", "failed", "panicked"
  t,        \* the translator of the current call: graph, full, r
  stack,    \* the translate invocations in progress, innermost last
  visits,   \* the translate invocations of this call: ast path and nodeId
  returned, \* the graphs returned so far, each with the call's full flag
  ret,      \* what the last call returned: graph and error (unset in a call)
  fatal,    \* the panic raised by translate, if any
  ncalls    \* the number of TranslateGrammar calls made

vars == <<g, call, pc, t, stack, visits, returned, ret, fatal, ncalls>>

\* The seed of the identity generator.
Seed == 0

\* Source texts: the one that parses to g, and texts that do not parse.
GoodSource == "grammar"
BadSources == {"(", "#&"}
Sources == {GoodSource} \cup BadSources

\* relapse.Parse(s): the grammar and a nil error, or an error.
Parse(s) ==
  IF s = GoodSource THEN [ok |-> TRUE, err |-> "nil"]
  ELSE [ok |-> FALSE, err |-> IF s = "(" THEN "unexpected end" ELSE "unexpected token"]

\* gographviz.NewGraph()
NewGraph == [name |-> "", directed |-> FALSE, nodes |-> <<>>, edges |-> <<>>]

\* (*gographviz.Graph).SetName, SetDir
SetName(graph, name) == [graph EXCEPT !.name = name]
SetDir(graph, dir) == [graph EXCEPT !.directed = dir]

\* t.addNode -> (*gographviz.Graph).AddNode: a new name is appended; a name
\* the graph already holds keeps its place and takes the new attributes.
addNode(graph, name, label) ==
  IF \E i \in 1..Len(graph.nodes) : graph.nodes[i].name = name
  THEN [graph EXCEPT !.nodes =
          [i \in 1..Len(graph.nodes) |->
             IF graph.nodes[i].name = name
             THEN [name |-> name, label |-> label] ELSE graph.nodes[i]]]
  ELSE [graph EXCEPT !.nodes = Append(graph.nodes, [name |-> name, label |-> label])]

\* addEdge with the two ends exchanged.
addEdgeReversed(graph, from, to, label) ==
  [graph EXCEPT !.edges =
     Append(graph.edges, [src |-> to, dst |-> from, dir |-> TRUE, label |-> label])]

\* t.addEdge -> (*gographviz.Graph).AddEdge(from, to, true, attr): appended.
addEdge(graph, from, to, label) ==
  [graph EXCEPT !.edges =
     Append(graph.edges, [src |-> from, dst |-> to, dir |-> TRUE, label |-> label])]

\* getTypeName: the last part of the reflected type string split on ".".
getTypeName(v) == LET ss == <<"*ast", v.type>> IN ss[Len(ss)]

\* nodeId := nodeName + suffix
NodeId(nodeName, suffix) == <<nodeName>> \o suffix

\* Control returns through every invocation that has no statement left.
RECURSIVE Unwind(_)
Unwind(st) ==
  IF st = <<>> THEN <<>>
  ELSE IF st[Len(st)].at = "body" /\ st[Len(st)].steps = <<>>
       THEN Unwind(SubSeq(st, 1, Len(st) - 1))
       ELSE st

\* The invocation translate(node, nodeName, suffix), about to run.
Invocation(node, nodeName, suffix, path) ==
  [node |-> node, nodeName |-> nodeName, suffix |-> suffix, path |-> path,
   at |-> "call", steps |-> <<>>]

\* No value returned (yet); a nil graph is graphNil with an empty graph.
NoReturn == [set |-> FALSE, graphNil |-> TRUE, graph |-> NewGraph, err |-> "nil"]

\* No panic; and panic(fmt.Sprintf(`unknown ast node of type "%T" and value
\* "%v"`, v, v)): the reflected type and the value it names.
NoPanic == [raised |-> FALSE, type |-> <<>>, value |-> Leaf("nil")]
Panic(v) == [raised |-> TRUE, type |-> <<"*ast", ".", v.type>>, value |-> v]

Init ==
  /\ g \in Grammars
  /\ call = [fn |-> "none", s |-> ""]
  /\ pc = "idle"
  /\ t = [graph |-> NewGraph, full |-> FALSE, r |-> NewSource(Seed)]
  /\ stack = <<>>
  /\ visits = <<>>
  /\ returned = {}
  /\ ret = NoReturn
  /\ fatal = NoPanic
  /\ ncalls = 0

\* newTranslator with the generator of the previous call kept (one generator
\* for the process).
newTranslatorSharedRand(full) ==
  [graph |-> SetDir(SetName(NewGraph, "Relapse"), TRUE),
   full  |-> full,
   r     |-> t.r]

\* The translator TranslateGrammar builds: a new graph, the flag, and a
\* generator of its own seeded with the constant.
newTranslator(full) ==
  [graph |-> SetDir(SetName(NewGraph, "Relapse"), TRUE),
   full  |-> full,
   r     |-> NewSource(Seed)]

CanCall == pc \in {"idle", "returned", "failed"}

\* TranslateGrammar(g, full) up to its call t.translate(g, nodeLabel, `root`).
TranslateGrammar(full) ==
  /\ ncalls < MaxCalls
  /\ ncalls' = ncalls + 1
  /\ t' = newTranslator(full)
  /\ stack' = << Invocation(g, getTypeName(g), <<"root">>, <<>>) >>
  /\ visits' = <<>>
  /\ pc' = "walking"
  /\ ret' = NoReturn
  /\ UNCHANGED <<g, returned, fatal>>

\* A caller that holds the grammar calls TranslateGrammar(g, full).
callTranslateGrammar(full) ==
  /\ CanCall
  /\ call' = [fn |-> "TranslateGrammar", s |-> ""]
  /\ TranslateGrammar(full)

\* Translate with the parse error dropped: the grammar is walked regardless.
TranslateIgnoringError(s, full) ==
  /\ CanCall
  /\ call' = [fn |-> "Translate", s |-> s]
  /\ TranslateGrammar(full)

\* Translate(s, full): the parse error with a nil graph, or TranslateGrammar
\* of the parsed grammar.
Translate(s, full) ==
  /\ CanCall
  /\ call' = [fn |-> "Translate", s |-> s]
  /\ IF ~Parse(s).ok
     THEN /\ ret' = [set |-> TRUE, graphNil |-> TRUE, graph |-> NewGraph,
                     err |-> Parse(s).err]
          /\ pc' = "failed"
          /\ UNCHANGED <<g, t, stack, visits, returned, fatal, ncalls>>
     ELSE TranslateGrammar(full)

\* translate with a default case that returns without a node and lets the
\* walk go on.
translateSkippingUnknown ==
  /\ pc = "walking"
  /\ stack # <<>>
  /\ LET top == stack[Len(stack)] IN
     /\ top.at = "call"
     /\ visits' = Append(visits, [path |-> top.path,
                                  id   |-> NodeId(top.nodeName, top.suffix)])
     /\ IF top.node.type \notin KnownTypes
        THEN LET st == Unwind(SubSeq(stack, 1, Len(stack) - 1)) IN
             /\ stack' = st
             /\ pc' = IF st = <<>> THEN "walked" ELSE "walking"
             /\ UNCHANGED <<t, fatal>>
        ELSE LET c      == typeSwitch(top.node, t.full, newLabel(top.nodeName))
                 nodeId == NodeId(top.nodeName, top.suffix)
                 st     == Unwind([stack EXCEPT ![Len(stack)] =
                                     [top EXCEPT !.at = "body", !.steps = c.steps]])
             IN  /\ t' = [t EXCEPT !.graph = addNode(t.graph, nodeId, c.label)]
                 /\ stack' = st
                 /\ pc' = IF st = <<>> THEN "walked" ELSE "walking"
                 /\ fatal' = fatal
  /\ UNCHANGED <<g, call, returned, ret, ncalls>>

\* translate(node, nodeName, suffix), from its entry to its first descent
\* (or to its return when it makes none): the node is added, or the walk
\* panics on a type without a case.
translate ==
  /\ pc = "walking"
  /\ stack # <<>>
  /\ LET top == stack[Len(stack)] IN
     /\ top.at = "call"
     /\ visits' = Append(visits, [path |-> top.path,
                                  id   |-> NodeId(top.nodeName, top.suffix)])
     /\ IF top.node.type \notin KnownTypes
        THEN /\ pc' = "panicked"
             /\ fatal' = Panic(top.node)
             /\ UNCHANGED <<t, stack>>
        ELSE LET c      == typeSwitch(top.node, t.full, newLabel(top.nodeName))
                 nodeId == NodeId(top.nodeName, top.suffix)
                 st     == Unwind([stack EXCEPT ![Len(stack)] =
                                     [top EXCEPT !.at = "body", !.steps = c.steps]])
             IN  /\ t' = [t EXCEPT !.graph = addNode(t.graph, nodeId, c.label)]
                 /\ stack' = st
                 /\ pc' = IF st = <<>> THEN "walked" ELSE "walking"
                 /\ fatal' = fatal
  /\ UNCHANGED <<g, call, returned, ret, ncalls>>

\* descend with the parent's suffix handed down instead of a fresh one.
descendReusingSuffix(edgeLabel) ==
  LET top    == stack[Len(stack)]
      step   == Head(top.steps)
      nodeId == NodeId(top.nodeName, top.suffix)
      nextNodeName == getTypeName(step.to)
      u      == Uint64(t.r)
      suffix == top.suffix
  IN  /\ t' = [t EXCEPT !.r = u.r,
                        !.graph = addEdge(t.graph, nodeId,
                                          NodeId(nextNodeName, suffix), edgeLabel)]
      /\ stack' = Append([stack EXCEPT ![Len(stack)].steps = Tail(top.steps)],
                         Invocation(step.to, nextNodeName, suffix,
                                    Append(top.path, <<step.field, step.idx>>)))
      /\ UNCHANGED <<g, call, pc, visits, returned, ret, fatal, ncalls>>

\* The descent the innermost invocation makes next: a suffix is drawn, the
\* edge is added, and translate is invoked on the child.
descend(edgeLabel) ==
  LET top    == stack[Len(stack)]
      step   == Head(top.steps)
      nodeId == NodeId(top.nodeName, top.suffix)
      nextNodeName == getTypeName(step.to)
      u      == Uint64(t.r)
      suffix == FormatUint(u.val)
  IN  /\ t' = [t EXCEPT !.r = u.r,
                        !.graph = addEdge(t.graph, nodeId,
                                          NodeId(nextNodeName, suffix), edgeLabel)]
      /\ stack' = Append([stack EXCEPT ![Len(stack)].steps = Tail(top.steps)],
                         Invocation(step.to, nextNodeName, suffix,
                                    Append(top.path, <<step.field, step.idx>>)))
      /\ UNCHANGED <<g, call, pc, visits, returned, ret, fatal, ncalls>>

\* t.down(nodeId, to, edgeLabelName)
down ==
  /\ pc = "walking"
  /\ stack # <<>>
  /\ stack[Len(stack)].at = "body"
  /\ Head(stack[Len(stack)].steps).kind = "down"
  /\ descend(<<Head(stack[Len(stack)].steps).field>>)

\* One round of a loop over PatternDecls, Elems or Params.
loop ==
  /\ pc = "walking"
  /\ stack # <<>>
  /\ stack[Len(stack)].at = "body"
  /\ Head(stack[Len(stack)].steps).kind = "index"
  /\ descend(Sprintf(Head(stack[Len(stack)].steps).field,
                     Head(stack[Len(stack)].steps).idx))

\* return t.graph (from Translate: with a nil error)
return ==
  /\ pc = "walked"
  /\ returned' = returned \cup {[full |-> t.full, graph |-> t.graph]}
  /\ ret' = [set |-> TRUE, graphNil |-> FALSE, graph |-> t.graph, err |-> "nil"]
  /\ pc' = "returned"
  /\ UNCHANGED <<g, call, t, stack, visits, fatal, ncalls>>

Next ==
  \/ \E full \in BOOLEAN : callTranslateGrammar(full)
  \/ \E s \in Sources, full \in BOOLEAN : Translate(s, full)
  \/ translate
  \/ down
  \/ loop
  \/ return

Spec == Init /\ [][Next]_vars

\* ------------------------------------------------------------- the claims

\* The ast node at a path of <<field, index>> steps below v.
RECURSIVE NodeAt(_, _)
NodeAt(v, path) ==
  IF path = <<>> THEN v
  ELSE LET h == Head(path) IN
       IF h[1] \in DOMAIN v.kids
       THEN NodeAt(v.kids[h[1]], Tail(path))
       ELSE NodeAt(v.lists[h[1]][h[2] + 1], Tail(path))

\* The path of the parent.
Parent(path) == SubSeq(path, 1, Len(path) - 1)

RootId == visits[1].id

\* The edges of the current graph that end at / leave an identity.
EdgesTo(id) == {k \in DOMAIN t.graph.edges : t.graph.edges[k].dst = id}
EdgesFrom(id) == {k \in DOMAIN t.graph.edges : t.graph.edges[k].src = id}

\* C2: after TranslateGrammar completes the graph is a tree that mirrors the
\* walk: no ast node was visited twice, every node but the root is the
\* destination of exactly one edge, and the root of none.
C2_TreeMirrorsWalk ==
  pc = "returned" =>
    /\ \A i, j \in DOMAIN visits : i # j => visits[i].path # visits[j].path
    /\ \A n \in DOMAIN t.graph.nodes :
          t.graph.nodes[n].name # RootId =>
             Cardinality(EdgesTo(t.graph.nodes[n].name)) = 1
    /\ EdgesTo(RootId) = {}

\* Whether the walker is to visit the child: structural always, trivia only
\* in full mode.
Shown(child, full) == full \/ child.type \notin TriviaTypes

\* 1 for the node plus, recursively, one per populated structural child
\* field (and element), plus the trivia ones in full mode.
RECURSIVE ExpectedNodes(_, _)
RECURSIVE ExpectedKids(_, _, _)
RECURSIVE ExpectedElems(_, _)
ExpectedNodes(v, full) ==
  1 + ExpectedKids(v, DOMAIN v.kids, full)
    + ExpectedElems(Join([i \in 1..Cardinality(DOMAIN v.lists) |->
                            v.lists[CHOOSE f \in DOMAIN v.lists : TRUE]]), full)
ExpectedKids(v, fs, full) ==
  IF fs = {} THEN 0
  ELSE LET f == CHOOSE x \in fs : TRUE IN
       (IF Shown(v.kids[f], full) THEN ExpectedNodes(v.kids[f], full) ELSE 0)
       + ExpectedKids(v, fs \ {f}, full)
ExpectedElems(es, full) ==
  IF es = <<>> THEN 0
  ELSE ExpectedNodes(Head(es), full) + ExpectedElems(Tail(es), full)

\* C3: the number of graph nodes TranslateGrammar produces is 1 for the root
\* plus, recursively, one per populated structural child field of each
\* visited node, plus one per populated trivia child field only when full.
C3_NodeCount ==
  pc = "returned" => Len(t.graph.nodes) = ExpectedNodes(g, t.full)

\* C10: for every visited node and every populated child field of it (in
\* non-full mode every structural one) the child is walked and exactly one
\* edge labeled with the field's name leads from the node to the child.
C10_OneEdgePerPopulatedChild ==
  pc = "returned" =>
    \A i \in DOMAIN visits :
      LET v == NodeAt(g, visits[i].path) IN
      \A f \in DOMAIN v.kids :
        Shown(v.kids[f], t.full) =>
          LET es == {k \in EdgesFrom(visits[i].id) : t.graph.edges[k].label = <<f>>} IN
          /\ Cardinality(es) = 1
          /\ \A k \in es :
               \E j \in DOMAIN visits :
                 /\ visits[j].path = Append(visits[i].path, <<f, 0>>)
                 /\ visits[j].id = t.graph.edges[k].dst

\* The identities and the edges of a graph, as sets.
NodeNames(graph) == {graph.nodes[n].name : n \in DOMAIN graph.nodes}
EdgeSet(graph) ==
  {<<graph.edges[k].src, graph.edges[k].dst, graph.edges[k].label>> :
      k \in DOMAIN graph.edges}

\* The same with each identity cut down to its type name (the part before
\* the drawn suffix).
TypeNames(graph) == {graph.nodes[n].name[1] : n \in DOMAIN graph.nodes}
TypeEdgeSet(graph) ==
  {<<graph.edges[k].src[1], graph.edges[k].dst[1], graph.edges[k].label>> :
      k \in DOMAIN graph.edges}

\* C4 as stated: the node identities and the edges (source identity,
\* destination identity, label) of the non-full translation of a grammar are
\* among those of its full translation.
C4_NonFullSubsetOfFull ==
  \A a, b \in returned :
    (~a.full /\ b.full) =>
      /\ NodeNames(a.graph) \subseteq NodeNames(b.graph)
      /\ EdgeSet(a.graph) \subseteq EdgeSet(b.graph)

\* C4 (amended): with the drawn suffix left out of every identity, the node
\* type names and the edges (source type name, destination type name,
\* label) of the non-full translation are among those of the full one.
C4_NonFullSubsetOfFull_TypeNames ==
  \A a, b \in returned :
    (~a.full /\ b.full) =>
      /\ TypeNames(a.graph) \subseteq TypeNames(b.graph)
      /\ TypeEdgeSet(a.graph) \subseteq TypeEdgeSet(b.graph)

\* Both translations of a grammar with trivia were returned, and the
\* identities of the non-full one are not all among those of the full one.
C4_Witness ==
  \E a, b \in returned :
    /\ ~a.full /\ b.full
    /\ Len(b.graph.nodes) > Len(a.graph.nodes)
    /\ Len(a.graph.edges) >= 2
    /\ ~(NodeNames(a.graph) \subseteq NodeNames(b.graph))

\* C5: two calls on the same grammar with the same full flag return the
\* same graph (identities, labels, edges), whatever was translated before
\* or between them.
C5_Deterministic ==
  \A a, b \in returned : a.full = b.full => a.graph = b.graph

\* Three translations returned, two of them with the same flag and one with
\* the other, of a grammar with at least two descents.
C5_Witness ==
  /\ pc = "returned"
  /\ ncalls = 3
  /\ Cardinality(returned) = 2
  /\ Len(t.graph.edges) >= 2

\* The edges from an identity whose label is a quoted "field[...]".
IndexedEdges(id, f) ==
  SelectSeq(t.graph.edges,
            LAMBDA e : e.src = id /\ Len(e.label) >= 3 /\ e.label[1] = Q
                       /\ e.label[2] = f /\ e.label[3] = "[")

\* C6: for every ordered child sequence of length n the walker emits exactly
\* n edges from the parent for that field, the i-th labeled "field[i]" for
\* i = 0..n-1 in sequence order and pointing to the node of the i-th element.
C6_IndexedEdges ==
  pc = "returned" =>
    \A i \in DOMAIN visits :
      LET v == NodeAt(g, visits[i].path) IN
      \A f \in DOMAIN v.lists :
        LET es == IndexedEdges(visits[i].id, f) IN
        /\ Len(es) = Len(v.lists[f])
        /\ \A k \in DOMAIN es :
             /\ es[k].label = <<Q, f, "[", Digits[k], "]", Q>>
             /\ \E j \in DOMAIN visits :
                  /\ visits[j].path = Append(visits[i].path, <<f, k - 1>>)
                  /\ visits[j].id = es[k].dst
                  /\ es[k].dst \in NodeNames(t.graph)

\* A grammar of three pattern declarations and nothing else was translated:
\* three edges leave the root.
C6_Witness ==
  /\ pc = "returned"
  /\ "PatternDecls" \in DOMAIN g.lists
  /\ Len(g.lists.PatternDecls) = 3
  /\ DOMAIN g.kids = {}
  /\ Cardinality(EdgesFrom(RootId)) = 3

\* Whether the walk of v in the mode comes to a node of a type without a case.
RECURSIVE MeetsUnregistered(_, _)
MeetsUnregistered(v, full) ==
  \/ v.type \notin KnownTypes
  \/ \E f \in DOMAIN v.kids :
        Shown(v.kids[f], full) /\ MeetsUnregistered(v.kids[f], full)
  \/ \E f \in DOMAIN v.lists : \E k \in DOMAIN v.lists[f] :
        MeetsUnregistered(v.lists[f][k], full)

\* C7: when the walker reaches a node of an unknown variant the traversal
\* aborts with a fatal error naming its type and value: the node is the last
\* one translate was invoked on, nothing follows, and no graph of such a
\* walk is ever returned.
C7_UnknownVariantAborts ==
  /\ \A i \in DOMAIN visits :
        NodeAt(g, visits[i].path).type \notin KnownTypes =>
          /\ pc = "panicked"
          /\ i = Len(visits)
          /\ fatal = [raised |-> TRUE,
                      type   |-> <<"*ast", ".", NodeAt(g, visits[i].path).type>>,
                      value  |-> NodeAt(g, visits[i].path)]
          /\ visits[i].id \notin NodeNames(t.graph)
  /\ pc = "panicked" => (~ret.set /\ ~ENABLED Next)
  /\ \A r \in returned : ~MeetsUnregistered(g, r.full)
  /\ (pc \in {"walked", "returned"}) => ~MeetsUnregistered(g, t.full)

\* The walk was aborted on the second element of a sequence, with part of
\* the graph built.
C7_Witness ==
  /\ pc = "panicked"
  /\ fatal.raised
  /\ Len(t.graph.nodes) >= 2
  /\ Len(visits) = Len(t.graph.nodes) + 1
  /\ t.graph.edges[Len(t.graph.edges)].label[1] = Q
  /\ returned = {}

\* C8: when parsing fails Translate returns the parser's error unchanged and
\* a nil graph, and starts no walk; when parsing succeeds it returns the
\* graph TranslateGrammar built, with a nil error.
C8_ParseFailure ==
  /\ (call.fn = "Translate" /\ ~Parse(call.s).ok) =>
        /\ pc = "failed"
        /\ ret = [set |-> TRUE, graphNil |-> TRUE, graph |-> NewGraph,
                  err |-> Parse(call.s).err]
  /\ pc = "failed" =>
        /\ stack = <<>>
        /\ (ncalls = 0 => (t.graph = NewGraph /\ visits = <<>> /\ returned = {}))
  /\ (call.fn = "Translate" /\ pc = "returned") =>
        /\ ret = [set |-> TRUE, graphNil |-> FALSE, graph |-> t.graph, err |-> "nil"]
        /\ [full |-> t.full, graph |-> t.graph] \in returned
        /\ Len(t.graph.nodes) >= 1

\* Translate was called on a text that does not parse, before any walk.
C8_Witness ==
  /\ call.fn = "Translate"
  /\ ~Parse(call.s).ok
  /\ pc = "failed"
  /\ ncalls = 0
  /\ ret.err = "unexpected token"

\* The number of backslashes right before position k of l.
RECURSIVE BackslashRun(_, _)
BackslashRun(l, k) ==
  IF k > 1 /\ l[k - 1] = BS THEN 1 + BackslashRun(l, k - 1) ELSE 0

\* A quoted string: an opening quote, a closing quote that is not escaped,
\* and every quote between them escaped.
ValidlyQuoted(l) ==
  /\ Len(l) >= 2
  /\ l[1] = Q
  /\ l[Len(l)] = Q
  /\ BackslashRun(l, Len(l)) % 2 = 0
  /\ \A k \in 2..(Len(l) - 1) : l[k] = Q => BackslashRun(l, k) % 2 = 1

\* C9: every label emitted by the walker is a validly quoted string: the
\* quote characters that come from the field values appear escaped.
C9_LabelsValidlyQuoted ==
  \A n \in DOMAIN t.graph.nodes : ValidlyQuoted(t.graph.nodes[n].label)

\* The names of the fields that hold whitespace, comments and tokens.
TriviaFields ==
  {"After", "Before", "Hash", "Eq", "Colon", "Dot", "At", "Star", "Pipe",
   "Ampersand", "Comma", "ExtraComma", "SemiColon", "ExtraSemiColon",
   "QuestionMark", "Exclamation", "Underscore", "Symbol", "RightArrow",
   "OpenParen", "CloseParen", "OpenBracket", "CloseBracket",
   "OpenCurly", "CloseCurly"}

\* C11: with full=false the walker visits no trivia node: at every point of
\* the walk and in the graph returned, translate was invoked on no Keyword
\* or Space, the graph holds no node of these types, and no edge is labeled
\* with the name of a trivia field.
C11_NoTriviaOutsideFull ==
  (pc \in {"walking", "walked", "returned"} /\ ~t.full) =>
    /\ \A i \in DOMAIN visits :
          NodeAt(g, visits[i].path).type \notin TriviaTypes
    /\ \A n \in DOMAIN t.graph.nodes :
          t.graph.nodes[n].name[1] \notin TriviaTypes
    /\ \A k \in DOMAIN t.graph.edges :
          /\ t.graph.edges[k].label[1] \notin TriviaFields
          /\ t.graph.edges[k].dst[1] \notin TriviaTypes
    /\ \A r \in returned :
          ~r.full => \A n \in DOMAIN r.graph.nodes :
                       r.graph.nodes[n].name[1] \notin TriviaTypes

\* A non-full translation returned for a grammar in which a visited node
\* has a populated trivia field next to a structural one that was walked.
C11_Witness ==
  /\ pc = "returned"
  /\ ~t.full
  /\ \E i \in DOMAIN visits :
        LET v == NodeAt(g, visits[i].path) IN
        /\ \E f \in DOMAIN v.kids : v.kids[f].type \in TriviaTypes
        /\ \E f \in DOMAIN v.kids : v.kids[f].type \notin TriviaTypes
        /\ EdgesFrom(visits[i].id) # {}

\* The fields of a node that are populated: pointers, slices and scalars.
PopulatedFields(v) == DOMAIN v.kids \cup DOMAIN v.lists \cup DOMAIN v.sc

\* The places of a label where a line starts (a backslash and an n written
\* by the walker), the names of its lines, and the number of lines of a name.
LineStarts(l) == {k \in 1..(Len(l) - 2) : l[k] = BS /\ l[k + 1] = "n"}
LineNames(l) == {l[k + 2] : k \in LineStarts(l)}
LinesNamed(l, f) == Cardinality({k \in LineStarts(l) : l[k + 2] = f})

\* The label given to an identity.
LabelOf(graph, id) ==
  graph.nodes[CHOOSE n \in DOMAIN graph.nodes : graph.nodes[n].name = id].label

\* The label is the variant name followed by one line per populated field,
\* named after the field (a Space node: one line per text of its Space).
LabelMatchesFields(v, l) ==
  /\ l[1] = Q
  /\ l[2] = v.type
  /\ \A f \in PopulatedFields(v) \cup LineNames(l) :
        LinesNamed(l, f) =
          IF f \notin PopulatedFields(v) THEN 0
          ELSE IF v.type = "Space" /\ f = "Space" THEN Len(v.sc.Space)
          ELSE 1

\* C12: the label of every visited node is the variant name followed by one
\* line per populated field of the node, named after that field: a line for
\* field F is there if and only if F is populated, whatever else is, and
\* the label of a node is the same in both modes.
C12_LabelLinePerPopulatedField ==
  /\ \A i \in DOMAIN visits :
        visits[i].id \in NodeNames(t.graph) =>
          LabelMatchesFields(NodeAt(g, visits[i].path), LabelOf(t.graph, visits[i].id))
  /\ \A a, b \in returned :
        a.graph.nodes[1].label = b.graph.nodes[1].label

\* The edges of a graph whose destination is no node of it.
Dangling(graph) ==
  {k \in DOMAIN graph.edges : graph.edges[k].dst \notin NodeNames(graph)}

\* C13: at every step of a walk the source of every edge is a node of the
\* graph (a node is added before any edge leaving it) and every node but the
\* root already has its inbound edge (the edge to a child is added before
\* the child's node), so that at most the last edge added awaits its
\* destination; when TranslateGrammar returns no edge is dangling; at an
\* unknown-variant abort the last edge added points to an identity for
\* which no node exists.
C13_EmissionOrder ==
  /\ \A k \in DOMAIN t.graph.edges : t.graph.edges[k].src \in NodeNames(t.graph)
  /\ \A n \in DOMAIN t.graph.nodes :
        n > 1 => EdgesTo(t.graph.nodes[n].name) # {}
  /\ Dangling(t.graph) \subseteq {Len(t.graph.edges)}
  /\ (pc = "walking" /\ stack # <<>> /\ stack[Len(stack)].at = "call"
        /\ Len(stack) > 1)
       => Dangling(t.graph) = {Len(t.graph.edges)}
  /\ pc \in {"walked", "returned"} => Dangling(t.graph) = {}
  /\ \A r \in returned :
        /\ Dangling(r.graph) = {}
        /\ \A k \in DOMAIN r.graph.edges :
             r.graph.edges[k].src \in NodeNames(r.graph)
  /\ (pc = "panicked" /\ t.graph.edges # <<>>) =>
        /\ Dangling(t.graph) = {Len(t.graph.edges)}
        /\ t.graph.edges[Len(t.graph.edges)].dst = visits[Len(visits)].id

\* A walk aborted below the root with at least two edges added: the last
\* one dangles, the ones before it do not.
C13_Witness ==
  /\ pc = "panicked"
  /\ Len(t.graph.edges) >= 2
  /\ Dangling(t.graph) = {Len(t.graph.edges)}
  /\ t.graph.edges[1].dst \in NodeNames(t.graph)

=============================================================================
